---- MODULE Spec2Model ----
(***************************************************************************)
(* Guest self-registration: the key-value wrapper with its in-memory       *)
(* fallback (lib/kv.ts), the submission endpoint with its rate limiter,    *)
(* validation schema and spam heuristic (app/api/submit/route.ts), the     *)
(* document endpoint (app/api/pdf/route.ts) and the success view           *)
(* (SuccessPage, whose code is kept in app/api/submit/route.ts).           *)
(*                                                                         *)
(* Assumed of the libraries: crypto.randomUUID() returns an identifier not *)
(* returned before; a remote call that throws leaves the remote store      *)
(* unchanged; pdf-lib's standard Helvetica encodes WinAnsi only, and       *)
(* drawText throws on a character outside it.                              *)
(*                                                                         *)
(* Strings are sequences of one-character strings, so that lengths,        *)
(* character classes, lower-casing and substring matches are computed.     *)
(* A handler is one atomic action where requests are served one after     *)
(* the other, and one action per await in SpecRace and SpecStore, where    *)
(* POST handlers interleave; each call a handler makes to the remote store *)
(* may fail independently (the failure flags are inputs).                  *)
(***************************************************************************)
EXTENDS Integers, Sequences, FiniteSets, TLC

VARIABLES
    remote,     \* the remote key-value store (@vercel/kv): key -> entry
    memory,     \* kv.ts's process-local fallback map: key -> entry
    now,        \* the clock (Date.now()), in units of TimeUnitMs
    issued,     \* identifiers crypto.randomUUID() has returned so far
    last,       \* the last request handled (endpoint, inputs, time)
    resp,       \* the response to the last request
    trace,      \* the steps the last handler took, in order
    pre,        \* history: the identity's window as it was before the last POST
    gwin,       \* history: per identity, the window of allowed attempts
    faulted,    \* history: rate-limit keys on which a remote call has failed
    calls,      \* SpecRace: per concurrent caller, how far its POST has got
    granted     \* SpecRace history: per identity and clock value, the calls
                \* the limiter allowed at that clock value

vars == <<remote, memory, now, issued, last, resp, trace, pre, gwin, faulted,
          calls, granted>>

\* JavaScript's null / undefined result of a lookup
NULL == [null |-> TRUE]

(***************************************************************************)
(* Bounds of the model.                                                    *)
(***************************************************************************)
MaxWindows == 1     \* the clock runs over MaxWindows + 1 window lengths
MaxRecords == 2     \* identifiers randomUUID can still hand out
MaxCallers == 2     \* POST handlers in flight at the same time (SpecRace)

(***************************************************************************)
(* Program constants.                                                      *)
(***************************************************************************)
\* TLC's integers are 32-bit and a year of milliseconds does not fit: the model
\* counts time in units of TimeUnitMs milliseconds, and every timestamp and
\* duration of the source (milliseconds) is a whole number of units.
TimeUnitMs == 1000
windowMs == (15 * 60 * 1000) \div TimeUnitMs
maxRequests == 3
expirationSeconds == 7 * 365 * 24 * 60 * 60
NoExpiry == -1      \* an entry written without an expiry option

(***************************************************************************)
(* Character classes and string helpers.                                   *)
(***************************************************************************)
LowerSeq == <<"a","b","c","d","e","f","g","h","i","j","k","l","m",
              "n","o","p","q","r","s","t","u","v","w","x","y","z">>
UpperSeq == <<"A","B","C","D","E","F","G","H","I","J","K","L","M",
              "N","O","P","Q","R","S","T","U","V","W","X","Y","Z">>
Range(s) == {s[i] : i \in DOMAIN s}
LowerChars == Range(LowerSeq)
UpperChars == Range(UpperSeq)
AlphaChars == LowerChars \cup UpperChars
DigitChars == {"0","1","2","3","4","5","6","7","8","9"}
SpaceChars == {" ", "\t", "\n"}
WordChars == AlphaChars \cup DigitChars \cup {"_"}
HexChars == DigitChars \cup {"a","b","c","d","e","f"} \cup {"A","B","C","D","E","F"}

AllIn(s, S) == \A i \in DOMAIN s : s[i] \in S

toLowerChar(c) ==
    IF c \in UpperChars
    THEN LowerSeq[CHOOSE i \in DOMAIN UpperSeq : UpperSeq[i] = c]
    ELSE c

toLowerCase(s) == [i \in DOMAIN s |-> toLowerChar(s[i])]

Repeat(c, n) == [i \in 1..n |-> c]

\* w occurs in s starting at position i
MatchAt(s, i, w) ==
    /\ i >= 1
    /\ i + Len(w) - 1 <= Len(s)
    /\ \A j \in 1..Len(w) : s[i + j - 1] = w[j]

\* the position of the first c in s, or 0
IndexOf(s, c) ==
    IF \E i \in DOMAIN s : s[i] = c
    THEN CHOOSE i \in DOMAIN s : s[i] = c /\ \A j \in 1..(i - 1) : s[j] # c
    ELSE 0

(***************************************************************************)
(* lib/kv.ts.  An entry is [value, ex]; kv.set(key, value) is called       *)
(* without options, so the entry carries no expiry.  A failing remote call *)
(* has no effect on the remote store.                                      *)
(***************************************************************************)
Put(store, key, entry) ==
    [k \in (DOMAIN store) \cup {key} |-> IF k = key THEN entry ELSE store[k]]

Lookup(store, key) == IF key \in DOMAIN store THEN store[key].value ELSE NULL

\* kvSet(key, value): the third argument its callers pass is not a parameter
\* of kvSet and is dropped.
kvSet(st, key, value, opts, fail) ==
    IF ~fail
    THEN [remote |-> Put(st.remote, key, [value |-> value, ex |-> NoExpiry]),
          memory |-> st.memory]
    ELSE [remote |-> st.remote,
          memory |-> Put(st.memory, key, [value |-> value, ex |-> NoExpiry])]

kvGet(st, key, fail) ==
    IF ~fail /\ Lookup(st.remote, key) # NULL
    THEN Lookup(st.remote, key)
    ELSE Lookup(st.memory, key)

\* a faulty variant: the identifier left out of the key
GuestKey_fixed(id) == <<"guest:">>
GuestKey(id) == <<"guest:">> \o id
\* a faulty variant: one counter shared by every client identity
RateKey_shared(identifier) == <<"rate_limit:", "all">>
RateKey(identifier) == <<"rate_limit:", identifier>>
IsGuestKey(key) == key # <<>> /\ key[1] = "guest:"
IsRateKey(key) == key # <<>> /\ key[1] = "rate_limit:"

\* one step of a handler; key is <<>> for a step that is no store call
Step(op, key, failed) == [op |-> op, key |-> key, failed |-> failed]

(***************************************************************************)
(* checkRateLimit.  kvGet and kvSet never raise, so the catch branch       *)
(* (return true) is never taken.                                           *)
(***************************************************************************)
\* a faulty variant: the ceiling compared with > (one call too many is allowed)
checkRateLimit_offByOne(st, identifier, t, failGet, failSet) ==
    LET key == RateKey(identifier)
        record == kvGet(st, key, failGet)
        got == <<Step("kvGet", key, failGet)>>
    IN  IF record = NULL \/ t > record.resetTime
        THEN [allowed |-> TRUE,
              st |-> kvSet(st, key, [count |-> 1, resetTime |-> t + windowMs],
                           (windowMs * TimeUnitMs) \div 1000, failSet),
              steps |-> got \o <<Step("kvSet", key, failSet)>>]
        ELSE IF record.count > maxRequests
        THEN [allowed |-> FALSE, st |-> st, steps |-> got]
        ELSE [allowed |-> TRUE,
              st |-> kvSet(st, key,
                           [count |-> record.count + 1, resetTime |-> record.resetTime],
                           ((record.resetTime - t) * TimeUnitMs) \div 1000, failSet),
              steps |-> got \o <<Step("kvSet", key, failSet)>>]

\* a faulty variant: a denied call writes the counter back
checkRateLimit_writeOnDeny(st, identifier, t, failGet, failSet) ==
    LET key == RateKey(identifier)
        record == kvGet(st, key, failGet)
        got == <<Step("kvGet", key, failGet)>>
    IN  IF record = NULL \/ t > record.resetTime
        THEN [allowed |-> TRUE,
              st |-> kvSet(st, key, [count |-> 1, resetTime |-> t + windowMs],
                           (windowMs * TimeUnitMs) \div 1000, failSet),
              steps |-> got \o <<Step("kvSet", key, failSet)>>]
        ELSE IF record.count >= maxRequests
        THEN [allowed |-> FALSE,
              st |-> kvSet(st, key, record,
                           ((record.resetTime - t) * TimeUnitMs) \div 1000, failSet),
              steps |-> got \o <<Step("kvSet", key, failSet)>>]
        ELSE [allowed |-> TRUE,
              st |-> kvSet(st, key,
                           [count |-> record.count + 1, resetTime |-> record.resetTime],
                           ((record.resetTime - t) * TimeUnitMs) \div 1000, failSet),
              steps |-> got \o <<Step("kvSet", key, failSet)>>]

\* a faulty variant: an increment moves the reset time to a window from now
checkRateLimit_pushBack(st, identifier, t, failGet, failSet) ==
    LET key == RateKey(identifier)
        record == kvGet(st, key, failGet)
        got == <<Step("kvGet", key, failGet)>>
    IN  IF record = NULL \/ t > record.resetTime
        THEN [allowed |-> TRUE,
              st |-> kvSet(st, key, [count |-> 1, resetTime |-> t + windowMs],
                           (windowMs * TimeUnitMs) \div 1000, failSet),
              steps |-> got \o <<Step("kvSet", key, failSet)>>]
        ELSE IF record.count >= maxRequests
        THEN [allowed |-> FALSE, st |-> st, steps |-> got]
        ELSE [allowed |-> TRUE,
              st |-> kvSet(st, key,
                           [count |-> record.count + 1, resetTime |-> t + windowMs],
                           (windowMs * TimeUnitMs) \div 1000, failSet),
              steps |-> got \o <<Step("kvSet", key, failSet)>>]

\* a faulty variant: the write recomputed from the counter as it is stored
\* when the write is made (read and write as one atomic step)
checkRateLimitWrite_atomic(st, identifier, record, t, failSet) ==
    LET key == RateKey(identifier)
        cur == kvGet(st, key, FALSE)
    IN  IF cur = NULL \/ t > cur.resetTime
        THEN [allowed |-> TRUE,
              st |-> kvSet(st, key, [count |-> 1, resetTime |-> t + windowMs],
                           (windowMs * TimeUnitMs) \div 1000, failSet),
              steps |-> <<Step("kvSet", key, failSet)>>]
        ELSE IF cur.count >= maxRequests
        THEN [allowed |-> FALSE, st |-> st, steps |-> <<>>]
        ELSE [allowed |-> TRUE,
              st |-> kvSet(st, key,
                           [count |-> cur.count + 1, resetTime |-> cur.resetTime],
                           ((cur.resetTime - t) * TimeUnitMs) \div 1000, failSet),
              steps |-> <<Step("kvSet", key, failSet)>>]

\* a faulty variant: the ceiling compared with > after the read
checkRateLimitWrite_offByOne(st, identifier, record, t, failSet) ==
    LET key == RateKey(identifier)
    IN  IF record = NULL \/ t > record.resetTime
        THEN [allowed |-> TRUE,
              st |-> kvSet(st, key, [count |-> 1, resetTime |-> t + windowMs],
                           (windowMs * TimeUnitMs) \div 1000, failSet),
              steps |-> <<Step("kvSet", key, failSet)>>]
        ELSE IF record.count > maxRequests
        THEN [allowed |-> FALSE, st |-> st, steps |-> <<>>]
        ELSE [allowed |-> TRUE,
              st |-> kvSet(st, key,
                           [count |-> record.count + 1, resetTime |-> record.resetTime],
                           ((record.resetTime - t) * TimeUnitMs) \div 1000, failSet),
              steps |-> <<Step("kvSet", key, failSet)>>]

\* checkRateLimit once kvGet has returned record: the clock is read (t), the
\* call is allowed or denied on the record, and an allowed call writes the
\* counter it computed from the record
checkRateLimitWrite(st, identifier, record, t, failSet) ==
    LET key == RateKey(identifier)
    IN  IF record = NULL \/ t > record.resetTime
        THEN [allowed |-> TRUE,
              st |-> kvSet(st, key, [count |-> 1, resetTime |-> t + windowMs],
                           (windowMs * TimeUnitMs) \div 1000, failSet),
              steps |-> <<Step("kvSet", key, failSet)>>]
        ELSE IF record.count >= maxRequests
        THEN [allowed |-> FALSE, st |-> st, steps |-> <<>>]
        ELSE [allowed |-> TRUE,
              st |-> kvSet(st, key,
                           [count |-> record.count + 1, resetTime |-> record.resetTime],
                           ((record.resetTime - t) * TimeUnitMs) \div 1000, failSet),
              steps |-> <<Step("kvSet", key, failSet)>>]

checkRateLimit(st, identifier, t, failGet, failSet) ==
    LET key == RateKey(identifier)
        record == kvGet(st, key, failGet)
        r == checkRateLimitWrite(st, identifier, record, t, failSet)
    IN  [allowed |-> r.allowed, st |-> r.st,
         steps |-> <<Step("kvGet", key, failGet)>> \o r.steps]

(***************************************************************************)
(* JSON values of a payload: [t |-> the typeof, v |-> the value].          *)
(*   string   v is a sequence of characters;                               *)
(*   date string (checkIn, checkOut)  v is [len, valid, ms]: the string's  *)
(*            length and what new Date(string) gives (valid = not NaN);    *)
(*   data URL (selfie, idImage, signature)  v is [head, segs]: the text    *)
(*            before the first comma and the comma-separated segments      *)
(*            after it, each [len, body] (body: what its bytes are);       *)
(*   number   v is the value in tenths (25 is 2.5);                        *)
(*   boolean  v is a BOOLEAN;   undefined: the key is absent.              *)
(***************************************************************************)
Undefined == [t |-> "undefined", v |-> <<>>]
Str(s) == [t |-> "string", v |-> s]
Num(tenths) == [t |-> "number", v |-> tenths]
Bool(b) == [t |-> "boolean", v |-> b]
DateStr(len, valid, ms) == [t |-> "string", v |-> [len |-> len, valid |-> valid, ms |-> ms]]
DataUrl(head, segs) == [t |-> "string", v |-> [head |-> head, segs |-> segs]]

\* the heads the model draws from, with their lengths
HeadLen(head) ==
    CASE head = "data:image/png;base64" -> 21
      [] head = "data:image/jpeg;base64" -> 22
      [] head = "data:image/jpg;base64" -> 21
      [] head = "data:image/webp;base64" -> 22
      [] head = "data:text/plain;base64" -> 22
      [] OTHER -> 0

\* head.startsWith(prefix), for the prefixes the code tests
StartsWith(head, prefix) ==
    CASE prefix = "data:image/" ->
            head \in {"data:image/png;base64", "data:image/jpeg;base64",
                      "data:image/jpg;base64", "data:image/webp;base64"}
      [] prefix = "data:image/png" -> head = "data:image/png;base64"
      [] prefix = "data:image/jpeg" -> head = "data:image/jpeg;base64"
      [] prefix = "data:image/jpg" -> head = "data:image/jpg;base64"
      [] OTHER -> FALSE

RECURSIVE SegsLen(_)
SegsLen(segs) ==
    IF segs = <<>> THEN 0 ELSE 1 + Head(segs).len + SegsLen(Tail(segs))

DataUrlLen(u) == HeadLen(u.head) + SegsLen(u.segs)

\* data.split(',')[1]: NULL when it is undefined or the empty string (falsy)
Base64Of(u) ==
    IF Len(u.segs) >= 1 /\ u.segs[1].len > 0 THEN u.segs[1] ELSE NULL

(***************************************************************************)
(* RegistrationSchema (zod).  A check that fails adds an issue and parsing *)
(* goes on (all checks of all fields are reported); a value of the wrong   *)
(* type, or a literal that differs, aborts its field, and the object-level *)
(* refinements run only when no field aborted.                             *)
(***************************************************************************)
Issue(field, message) == [field |-> field, message |-> message]
IfIssue(cond, field, message) == IF cond THEN <<Issue(field, message)>> ELSE <<>>

TypeIssue(field, x, expected) ==
    <<Issue(field, IF x.t = "undefined" THEN "Required"
                   ELSE "Expected " \o expected \o ", received " \o x.t)>>

NameChars == AlphaChars \cup SpaceChars \cup {"-", "'", "."}
IdChars == AlphaChars \cup DigitChars \cup {"-"}
NationalityChars == AlphaChars \cup SpaceChars
PhoneChars == DigitChars \cup SpaceChars \cup {"-", "(", ")"}

fullNameIssues(x) ==
    IF x.t # "string" THEN TypeIssue("fullName", x, "string")
    ELSE IfIssue(Len(x.v) < 2, "fullName", "Full name must be at least 2 characters")
      \o IfIssue(Len(x.v) > 100, "fullName", "Full name must be less than 100 characters")
      \o IfIssue(~(Len(x.v) >= 1 /\ AllIn(x.v, NameChars)),
                 "fullName", "Full name contains invalid characters")

idOrPassportIssues(x) ==
    IF x.t # "string" THEN TypeIssue("idOrPassport", x, "string")
    ELSE IfIssue(Len(x.v) < 4, "idOrPassport", "ID/Passport must be at least 4 characters")
      \o IfIssue(Len(x.v) > 20, "idOrPassport", "ID/Passport must be less than 20 characters")
      \o IfIssue(~(Len(x.v) >= 1 /\ AllIn(x.v, IdChars)),
                 "idOrPassport", "ID/Passport contains invalid characters")

nationalityIssues(x) ==
    IF x.t # "string" THEN TypeIssue("nationality", x, "string")
    ELSE IfIssue(Len(x.v) < 2, "nationality", "Nationality must be at least 2 characters")
      \o IfIssue(Len(x.v) > 50, "nationality", "Nationality must be less than 50 characters")
      \o IfIssue(~(Len(x.v) >= 1 /\ AllIn(x.v, NationalityChars)),
                 "nationality", "Nationality contains invalid characters")

residenceStatusIssues(x) ==
    IF x.t # "string" THEN TypeIssue("residenceStatus", x, "string")
    ELSE IfIssue(Len(x.v) < 2, "residenceStatus",
                 "Residence status must be at least 2 characters")
      \o IfIssue(Len(x.v) > 100, "residenceStatus",
                 "Residence status must be less than 100 characters")

homeAddressIssues(x) ==
    IF x.t # "string" THEN TypeIssue("homeAddress", x, "string")
    ELSE IfIssue(Len(x.v) < 5, "homeAddress", "Home address must be at least 5 characters")
      \o IfIssue(Len(x.v) > 300, "homeAddress", "Home address must be less than 300 characters")

\* /^[\+]?[\d\s\-\(\)]+$/
PhoneMatches(s) ==
    LET rest == IF Len(s) >= 1 /\ s[1] = "+" THEN Tail(s) ELSE s
    IN  Len(rest) >= 1 /\ AllIn(rest, PhoneChars)

phoneIssues(x) ==
    IF x.t # "string" THEN TypeIssue("phone", x, "string")
    ELSE IfIssue(Len(x.v) < 6, "phone", "Phone number must be at least 6 characters")
      \o IfIssue(Len(x.v) > 20, "phone", "Phone number must be less than 20 characters")
      \o IfIssue(~PhoneMatches(x.v), "phone", "Invalid phone number format")

\* zod's email pattern:
\* /^(?!\.)(?!.*\.\.)([A-Z0-9_'+\-\.]*)[A-Z0-9_+-]@([A-Z0-9][A-Z0-9\-]*\.)+[A-Z]{2,}$/i
EmailLocalChars == AlphaChars \cup DigitChars \cup {"_", "'", "+", "-", "."}
EmailLocalLast == AlphaChars \cup DigitChars \cup {"_", "+", "-"}
AlnumChars == AlphaChars \cup DigitChars

\* s is one or more labels [A-Z0-9][A-Z0-9\-]*, each followed by a dot, then
\* two or more letters
RECURSIVE DomainMatches(_, _)
DomainMatches(s, labels) ==
    LET dot == IndexOf(s, ".")
    IN  IF dot = 0
        THEN labels >= 1 /\ Len(s) >= 2 /\ AllIn(s, AlphaChars)
        ELSE /\ dot >= 2
             /\ s[1] \in AlnumChars
             /\ AllIn(SubSeq(s, 1, dot - 1), AlnumChars \cup {"-"})
             /\ DomainMatches(SubSeq(s, dot + 1, Len(s)), labels + 1)

EmailMatches(s) ==
    LET at == IndexOf(s, "@")
        local == SubSeq(s, 1, at - 1)
        domain == SubSeq(s, at + 1, Len(s))
    IN  /\ at >= 2
        /\ s[1] # "."
        /\ ~\E i \in 1..(Len(s) - 1) : s[i] = "." /\ s[i + 1] = "."
        /\ AllIn(local, EmailLocalChars)
        /\ local[Len(local)] \in EmailLocalLast
        /\ DomainMatches(domain, 0)

emailIssues(x) ==
    IF x.t # "string" THEN TypeIssue("email", x, "string")
    ELSE IfIssue(~EmailMatches(x.v), "email", "Invalid email address")
      \o IfIssue(Len(x.v) > 100, "email", "Email must be less than 100 characters")

\* new Date(s) > new Date(t): a comparison with an invalid date (NaN) is false
\* a faulty variant: a date equal to now taken as later
DateAfter_orEqual(d, t) == d.valid /\ d.ms >= t
DateAfter(d, t) == d.valid /\ d.ms > t

checkInIssues(x, t) ==
    IF x.t # "string" THEN TypeIssue("checkIn", x, "string")
    ELSE IfIssue(x.v.len < 4, "checkIn", "Check-in date is required")
      \o IfIssue(~DateAfter(x.v, t), "checkIn", "Check-in date must be in the future")

checkOutIssues(x) ==
    IF x.t # "string" THEN TypeIssue("checkOut", x, "string")
    ELSE IfIssue(x.v.len < 4, "checkOut", "Check-out date is required")

guestsIssues(x) ==
    IF x.t # "number" THEN TypeIssue("guests", x, "number")
    ELSE IfIssue(x.v % 10 # 0, "guests", "Number of guests must be a whole number")
      \o IfIssue(x.v < 10, "guests", "At least 1 guest is required")
      \o IfIssue(x.v > 200, "guests", "Maximum 20 guests allowed")

MaxImageBytes == 5 * 1024 * 1024
MaxSignatureBytes == 1 * 1024 * 1024

\* the refinement of a document field: sizeInBytes = (base64.length * 3) / 4
ImageOk(u, maxSize) ==
    /\ StartsWith(u.head, "data:image/")
    /\ Base64Of(u) # NULL
    /\ Base64Of(u).len * 3 <= maxSize * 4

selfieIssues(x) ==
    IF x.t # "string" THEN TypeIssue("selfie", x, "string")
    ELSE IfIssue(DataUrlLen(x.v) < 10, "selfie", "Selfie is required")
      \o IfIssue(~ImageOk(x.v, MaxImageBytes), "selfie",
                 "Invalid selfie image or file too large (max 5MB)")

idImageIssues(x) ==
    IF x.t # "string" THEN TypeIssue("idImage", x, "string")
    ELSE IfIssue(DataUrlLen(x.v) < 10, "idImage", "ID/Passport image is required")
      \o IfIssue(~ImageOk(x.v, MaxImageBytes), "idImage",
                 "Invalid ID/Passport image or file too large (max 5MB)")

signatureIssues(x) ==
    IF x.t # "string" THEN TypeIssue("signature", x, "string")
    ELSE IfIssue(DataUrlLen(x.v) < 10, "signature", "Digital signature is required")
      \o IfIssue(~ImageOk(x.v, MaxSignatureBytes), "signature",
                 "Invalid signature or file too large (max 1MB)")

IsTrue(x) == x.t = "boolean" /\ x.v = TRUE

popiaConsentIssues(x) ==
    IfIssue(~IsTrue(x), "popiaConsent", "POPIA consent is required")

nonRefundAckIssues(x) ==
    IfIssue(~IsTrue(x), "nonRefundAck", "Non-refund policy acknowledgment is required")

StringFields == {"fullName", "idOrPassport", "nationality", "residenceStatus",
                 "homeAddress", "phone", "email", "checkIn", "checkOut",
                 "selfie", "idImage", "signature"}

\* a field whose value has the wrong type (or is not the literal true) aborts
Aborted(p) ==
    \/ \E f \in StringFields : p[f].t # "string"
    \/ p.guests.t # "number"
    \/ ~IsTrue(p.popiaConsent)
    \/ ~IsTrue(p.nonRefundAck)

FieldIssues(p, t) ==
    fullNameIssues(p.fullName) \o idOrPassportIssues(p.idOrPassport)
      \o nationalityIssues(p.nationality) \o residenceStatusIssues(p.residenceStatus)
      \o homeAddressIssues(p.homeAddress) \o phoneIssues(p.phone)
      \o emailIssues(p.email) \o checkInIssues(p.checkIn, t)
      \o checkOutIssues(p.checkOut) \o guestsIssues(p.guests)
      \o selfieIssues(p.selfie) \o idImageIssues(p.idImage)
      \o signatureIssues(p.signature) \o popiaConsentIssues(p.popiaConsent)
      \o nonRefundAckIssues(p.nonRefundAck)

MsPerDay == (1000 * 60 * 60 * 24) \div TimeUnitMs
Abs(n) == IF n < 0 THEN -n ELSE n
CeilDiv(n, d) == (n + d - 1) \div d

\* the two object-level refinements, both reported on checkOut
CrossIssues(p) ==
    LET ci == p.checkIn.v
        co == p.checkOut.v
    IN  IfIssue(~(ci.valid /\ co.valid /\ co.ms > ci.ms),
                "checkOut", "Check-out date must be after check-in date")
     \o IfIssue(~(ci.valid /\ co.valid
                  /\ CeilDiv(Abs(co.ms - ci.ms), MsPerDay) <= 365),
                "checkOut", "Stay duration cannot exceed 365 days")

\* RegistrationSchema.parse(payload) at time t: the issues, and the parsed
\* data (the email lower-cased)
Validate(p, t) ==
    LET issues == FieldIssues(p, t) \o (IF Aborted(p) THEN <<>> ELSE CrossIssues(p))
    IN  [ok |-> issues = <<>>,
         issues |-> issues,
         data |-> IF issues = <<>>
                  THEN [p EXCEPT !.email = Str(toLowerCase(p.email.v))]
                  ELSE NULL]

(***************************************************************************)
(* FormSchema, the schema of the client form (app/success/not-found.tsx):  *)
(* the rules of RegistrationSchema, but the three document fields are only *)
(* required to be strings of at least 10 characters, and the email is not  *)
(* lower-cased.                                                            *)
(***************************************************************************)
FormDocumentIssues(x, field, message) ==
    IF x.t # "string" THEN TypeIssue(field, x, "string")
    ELSE IfIssue(DataUrlLen(x.v) < 10, field, message)

FormFieldIssues(p, t) ==
    fullNameIssues(p.fullName) \o idOrPassportIssues(p.idOrPassport)
      \o nationalityIssues(p.nationality) \o residenceStatusIssues(p.residenceStatus)
      \o homeAddressIssues(p.homeAddress) \o phoneIssues(p.phone)
      \o emailIssues(p.email) \o checkInIssues(p.checkIn, t)
      \o checkOutIssues(p.checkOut) \o guestsIssues(p.guests)
      \o FormDocumentIssues(p.selfie, "selfie", "Selfie is required")
      \o FormDocumentIssues(p.idImage, "idImage", "ID/Passport image is required")
      \o FormDocumentIssues(p.signature, "signature", "Digital signature is required")
      \o popiaConsentIssues(p.popiaConsent)
      \o nonRefundAckIssues(p.nonRefundAck)

\* FormSchema.parse(payload) at time t
FormValidate(p, t) ==
    LET issues == FormFieldIssues(p, t) \o (IF Aborted(p) THEN <<>> ELSE CrossIssues(p))
    IN  [ok |-> issues = <<>>, issues |-> issues,
         data |-> IF issues = <<>> THEN p ELSE NULL]

(***************************************************************************)
(* detectSpamPatterns.                                                     *)
(***************************************************************************)
W_test == <<"t","e","s","t">>
W_fake == <<"f","a","k","e">>
W_spam == <<"s","p","a","m">>
W_dummy == <<"d","u","m","m","y">>
TestWords == {W_test, W_fake, W_spam, W_dummy}
SpamKeywords ==
    {<<"v","i","a","g","r","a">>, <<"c","a","s","i","n","o">>,
     <<"l","o","t","t","e","r","y">>, <<"w","i","n","n","e","r">>,
     <<"c","o","n","g","r","a","t","u","l","a","t","i","o","n","s">>,
     <<"u","r","g","e","n","t">>,
     <<"c","l","i","c","k"," ","h","e","r","e">>}

\* /(.)\1{10,}/ : a character other than a line break, 11 or more times in a row
RepeatedRun(s) ==
    \E i \in DOMAIN s :
        /\ s[i] # "\n"
        /\ i + 10 <= Len(s)
        /\ \A j \in i..(i + 10) : s[j] = s[i]

\* /(test|fake|spam|dummy)\d*@/i
TestEmail(s) ==
    \E w \in TestWords : \E i \in DOMAIN s :
        /\ MatchAt(s, i, w)
        /\ \E j \in (i + Len(w))..Len(s) :
              /\ s[j] = "@"
              /\ \A k \in (i + Len(w))..(j - 1) : s[k] \in DigitChars

\* /^\s*$/
Blank(s) == AllIn(s, SpaceChars)

\* /\b(viagra|...|click here)\b/i
Keyword(s) ==
    \E w \in SpamKeywords : \E i \in DOMAIN s :
        /\ MatchAt(s, i, w)
        /\ (i = 1 \/ s[i - 1] \notin WordChars)
        /\ (i + Len(w) - 1 = Len(s) \/ s[i + Len(w)] \notin WordChars)

detectSpamPatterns(data) ==
    LET text == toLowerCase(data.fullName.v \o <<" ">> \o data.email.v
                            \o <<" ">> \o data.homeAddress.v)
    IN  RepeatedRun(text) \/ TestEmail(text) \/ Blank(text) \/ Keyword(text)

(***************************************************************************)
(* The payloads and the times the model draws from.                        *)
(***************************************************************************)
CheckInAt == 30 * MsPerDay
\* one comma-separated segment of a data URL: len characters of which the
\* last pad are "=", holding a file of kind body ("notb64": not base64)
Seg(n, pad, body) == [len |-> n, pad |-> pad, body |-> body]
Png(n) == DataUrl("data:image/png;base64", <<Seg(n, 0, "png")>>)
Jpeg(n) == DataUrl("data:image/jpeg;base64", <<Seg(n, 0, "jpg")>>)

\* an image whose decoded bytes are a picture of w by h pixels
Pic(head, body, w, h) ==
    DataUrl(head, <<[len |-> 8, pad |-> 0, body |-> body, w |-> w, h |-> h]>>)

ValidPayload ==
    [fullName |-> Str(<<"A","l"," ","B">>),
     idOrPassport |-> Str(<<"A","1","2","3","4">>),
     nationality |-> Str(<<"Z","A">>),
     residenceStatus |-> Str(<<"P","R">>),
     homeAddress |-> Str(<<"1"," ","A"," ","S","t">>),
     phone |-> Str(<<"+","2","7"," ","1","1"," ","5">>),
     email |-> Str(<<"A","l","@","x",".","c","o">>),
     checkIn |-> DateStr(16, TRUE, CheckInAt),
     checkOut |-> DateStr(16, TRUE, CheckInAt + MsPerDay),
     guests |-> Num(20),
     selfie |-> Png(8),
     idImage |-> Jpeg(8),
     signature |-> Png(4),
     popiaConsent |-> Bool(TRUE),
     nonRefundAck |-> Bool(TRUE)]

\* payloads of the registration form, around each rule of the schema
AtLimit5MB == 6990508     \* base64 characters of 5MB + 1 bytes (5MB with one "=")
AtLimit1MB == 1398104     \* base64 characters of 1MB + 2 bytes (1MB with "==")
FieldPayloads ==
    {[ValidPayload EXCEPT !.fullName = Str(<<"A","1">>), !.phone = Str(<<"x">>)],
     [ValidPayload EXCEPT !.popiaConsent = Bool(FALSE),
                          !.checkOut = DateStr(16, TRUE, CheckInAt)],
     [ValidPayload EXCEPT !.guests = Num(25)]}
DatePayloads ==
    {[ValidPayload EXCEPT !.checkIn = DateStr(16, TRUE, 1)],
     [ValidPayload EXCEPT !.checkIn = DateStr(16, FALSE, 0)],
     [ValidPayload EXCEPT !.checkOut = DateStr(16, TRUE, CheckInAt)],
     [ValidPayload EXCEPT !.checkOut = DateStr(16, TRUE, CheckInAt - 1)],
     [ValidPayload EXCEPT !.checkOut = DateStr(16, TRUE, CheckInAt + 365 * MsPerDay)],
     [ValidPayload EXCEPT !.checkOut = DateStr(16, TRUE, CheckInAt + 365 * MsPerDay + 1)],
     [ValidPayload EXCEPT !.checkOut = DateStr(16, FALSE, 0)]}
ImagePayloads ==
    {[ValidPayload EXCEPT
         !.selfie = DataUrl("data:image/png;base64", <<Seg(AtLimit5MB, 1, "png")>>)],
     [ValidPayload EXCEPT
         !.selfie = DataUrl("data:image/png;base64", <<Seg(AtLimit5MB, 0, "png")>>)],
     [ValidPayload EXCEPT
         !.selfie = DataUrl("data:image/png;base64", <<Seg(AtLimit5MB - 4, 0, "png")>>)],
     [ValidPayload EXCEPT
         !.idImage = DataUrl("data:image/jpeg;base64", <<Seg(AtLimit5MB, 2, "jpg")>>)],
     [ValidPayload EXCEPT
         !.signature = DataUrl("data:image/png;base64", <<Seg(AtLimit1MB, 2, "png")>>)],
     [ValidPayload EXCEPT
         !.signature = DataUrl("data:image/png;base64", <<Seg(AtLimit1MB, 0, "png")>>)],
     [ValidPayload EXCEPT
         !.selfie = DataUrl("data:text/plain;base64", <<Seg(8, 0, "png")>>)],
     [ValidPayload EXCEPT !.selfie = Undefined],
     [ValidPayload EXCEPT !.signature = DataUrl("data:image/png;base64", <<>>)],
     [ValidPayload EXCEPT !.signature = Undefined],
     [ValidPayload EXCEPT
         !.selfie = DataUrl("data:image/webp;base64", <<Seg(8, 0, "webp")>>)],
     [ValidPayload EXCEPT
         !.idImage = DataUrl("data:image/png;base64", <<Seg(8, 0, "notb64")>>)]}
SpamPayloads ==
    {[ValidPayload EXCEPT !.email = Str(<<"T","e","s","t","1","@","x",".","c","o">>)],
     [ValidPayload EXCEPT !.fullName = Str(<<"A"," ","W","i","n","n","e","r">>)],
     [ValidPayload EXCEPT !.homeAddress = Str(Repeat("a", 12))]}
FormPayloads ==
    {ValidPayload, [ValidPayload EXCEPT !.fullName = Undefined],
     [ValidPayload EXCEPT !.checkIn = DateStr(16, TRUE, 0)]}
      \cup FieldPayloads \cup DatePayloads \cup ImagePayloads \cup SpamPayloads

\* payloads of the document layout: an address of three words of 40
\* characters, each as wide as a line of the field list, and images whose
\* heights put the cursor on either side of what is left of the page
LongWord == [i \in 1..40 |-> IF i % 2 = 1 THEN "W" ELSE "M"]
LongAddress == LongWord \o <<" ">> \o LongWord \o <<" ">> \o LongWord
PagePayloads ==
    {ValidPayload,
     [ValidPayload EXCEPT !.homeAddress = Str(LongAddress)],
     [ValidPayload EXCEPT
         !.selfie = Pic("data:image/png;base64", "png", 100, 400),
         !.idImage = Pic("data:image/jpeg;base64", "jpg", 200, 70),
         !.signature = DataUrl("data:image/png;base64", <<Seg(8, 0, "notb64")>>)],
     [ValidPayload EXCEPT
         !.selfie = Pic("data:image/png;base64", "png", 200, 150),
         !.idImage = Pic("data:image/jpeg;base64", "jpg", 200, 71),
         !.signature = Pic("data:image/png;base64", "png", 200, 30)]}

Payloads ==
    FormPayloads \cup PagePayloads \cup
    {ValidPayload,
     [ValidPayload EXCEPT !.fullName = Str(<<"B","o">>),
                          !.email = Str(<<"b","o","@","y",".","i","o">>)],
     [ValidPayload EXCEPT !.fullName = Str(<<"A","1">>)],
     [ValidPayload EXCEPT !.fullName = Undefined],
     [ValidPayload EXCEPT !.popiaConsent = Bool(FALSE)],
     [ValidPayload EXCEPT !.checkIn = DateStr(16, TRUE, 0)],
     [ValidPayload EXCEPT !.email = Str(<<"T","e","s","t","1","@","x",".","c","o">>)],
     [ValidPayload EXCEPT !.fullName = Str(<<"A"," ","W","i","n","n","e","r">>)]}

TimePoints ==
    {k * windowMs + o : k \in 0..MaxWindows, o \in 0..1}
      \cup {k * (windowMs + 1) : k \in 0..MaxWindows}

\* RegistrationSchema.parse and detectSpamPatterns on every payload at every
\* time of the model, computed once
Parsed ==
    [p \in Payloads, t \in TimePoints |->
        LET v == Validate(p, t)
        IN  [ok |-> v.ok, issues |-> v.issues, data |-> v.data,
             spam |-> IF v.ok THEN detectSpamPatterns(v.data) ELSE FALSE]] @@ <<>>

(***************************************************************************)
(* Identifiers.  crypto.randomUUID() returns a version-4 identifier in     *)
(* lower-case hexadecimal that it has not returned before.                 *)
(***************************************************************************)
DashAt == {9, 14, 19, 24}

\* a faulty variant: the pattern without its i flag
isValidUUID_caseSensitive(uuid) ==
    /\ Len(uuid) = 36
    /\ \A i \in 1..36 :
          IF i \in DashAt THEN uuid[i] = "-" ELSE uuid[i] \in HexChars \ UpperChars

\* /^[0-9a-f]{8}-[0-9a-f]{4}-[0-9a-f]{4}-[0-9a-f]{4}-[0-9a-f]{12}$/i
isValidUUID(uuid) ==
    /\ Len(uuid) = 36
    /\ \A i \in 1..36 : IF i \in DashAt THEN uuid[i] = "-" ELSE uuid[i] \in HexChars

MkUUID(c) ==
    [i \in 1..36 |-> IF i \in DashAt THEN "-"
                     ELSE IF i = 15 THEN "4"
                     ELSE IF i = 20 THEN "8"
                     ELSE c]

UuidDigits == <<"a", "b", "c", "d", "e", "f">>
UuidPool == {MkUUID(UuidDigits[k]) : k \in 1..MaxRecords}
NoUuid == <<>>

\* a faulty variant: an identifier may be handed out twice
randomUUID_repeat(used) == UuidPool
randomUUID(used) == UuidPool \ used

(***************************************************************************)
(* POST /api/submit.                                                       *)
(***************************************************************************)
\* forwarded ? forwarded.split(",")[0] : headersList.get("x-real-ip") || "unknown"
\* xff is the x-forwarded-for header split at its commas (<<>>: absent or empty)
ClientIp(hdr) ==
    IF hdr.xff # <<>> THEN hdr.xff[1]
    ELSE IF hdr.xri # "" THEN hdr.xri
    ELSE "unknown"

Response(status, error, id, details, doc) ==
    [status |-> status, error |-> error, id |-> id, details |-> details, doc |-> doc]

Reaches(steps, op) == \E i \in DOMAIN steps : steps[i].op = op

\* the record write and the 201 (route.ts, from "Generate unique ID" on)
Persist(st, steps, hdr, data, t, id, failSet) ==
    LET submission == [id |-> id, createdAt |-> t, data |-> data,
                       metadata |-> [userAgent |-> hdr.ua, ip |-> ClientIp(hdr),
                                     timestamp |-> t]]
    IN  [st |-> kvSet(st, GuestKey(id), submission, expirationSeconds, failSet),
         steps |-> steps \o <<Step("randomUUID", <<>>, FALSE),
                              Step("kvSet", GuestKey(id), failSet)>>,
         resp |-> Response(201, "", id, <<>>, <<>>)]

\* a faulty variant: the spam check left out
AfterLimit_skipSpam(st, steps, hdr, body, t, id, failSet) ==
    IF ~body.json
    THEN [st |-> st, steps |-> steps \o <<Step("parse", <<>>, FALSE)>>,
          resp |-> Response(400, "Invalid JSON in request body", NoUuid, <<>>, <<>>)]
    ELSE IF ~Parsed[body.payload, t].ok
    THEN [st |-> st,
          steps |-> steps \o <<Step("parse", <<>>, FALSE), Step("validate", <<>>, FALSE)>>,
          resp |-> Response(400, "Validation failed", NoUuid,
                            Parsed[body.payload, t].issues, <<>>)]
    ELSE Persist(st, steps \o <<Step("parse", <<>>, FALSE), Step("validate", <<>>, FALSE)>>,
                 hdr, Parsed[body.payload, t].data, t, id, failSet)

\* a faulty variant: the spam rejection names the field that matched
AfterLimit_spamDetail(st, steps, hdr, body, t, id, failSet) ==
    IF ~body.json
    THEN [st |-> st, steps |-> steps \o <<Step("parse", <<>>, FALSE)>>,
          resp |-> Response(400, "Invalid JSON in request body", NoUuid, <<>>, <<>>)]
    ELSE IF ~Parsed[body.payload, t].ok
    THEN [st |-> st,
          steps |-> steps \o <<Step("parse", <<>>, FALSE), Step("validate", <<>>, FALSE)>>,
          resp |-> Response(400, "Validation failed", NoUuid,
                            Parsed[body.payload, t].issues, <<>>)]
    ELSE IF Parsed[body.payload, t].spam
    THEN [st |-> st,
          steps |-> steps \o <<Step("parse", <<>>, FALSE), Step("validate", <<>>, FALSE),
                                Step("spam", <<>>, FALSE)>>,
          resp |-> Response(400, "Submission rejected", NoUuid,
                            IF TestEmail(toLowerCase(body.payload.email.v))
                            THEN <<Issue("email", "Test email")>>
                            ELSE <<Issue("text", "Spam pattern")>>, <<>>)]
    ELSE Persist(st, steps \o <<Step("parse", <<>>, FALSE), Step("validate", <<>>, FALSE),
                              Step("spam", <<>>, FALSE)>>,
                 hdr, Parsed[body.payload, t].data, t, id, failSet)

\* what POST does once the limiter has allowed the call: parse the body,
\* validate it, check it for spam, store the record
AfterLimit(st, steps, hdr, body, t, id, failSet) ==
    IF ~body.json
    THEN [st |-> st, steps |-> steps \o <<Step("parse", <<>>, FALSE)>>,
          resp |-> Response(400, "Invalid JSON in request body", NoUuid, <<>>, <<>>)]
    ELSE
    LET v == Parsed[body.payload, t]
        parsed == steps \o <<Step("parse", <<>>, FALSE), Step("validate", <<>>, FALSE)>>
    IN  IF ~v.ok
        THEN [st |-> st, steps |-> parsed,
              resp |-> Response(400, "Validation failed", NoUuid, v.issues, <<>>)]
        ELSE IF v.spam
        THEN [st |-> st, steps |-> parsed \o <<Step("spam", <<>>, FALSE)>>,
              resp |-> Response(400, "Submission rejected", NoUuid, <<>>, <<>>)]
        ELSE Persist(st, parsed \o <<Step("spam", <<>>, FALSE)>>,
                     hdr, v.data, t, id, failSet)

\* a faulty variant: the body is validated before the limiter is consulted
POST_validateFirst(st, hdr, body, t, id, f) ==
    LET rl == checkRateLimit(st, ClientIp(hdr), t, f[1], f[2])
    IN  IF body.json /\ ~Parsed[body.payload, t].ok
        THEN AfterLimit(st, <<>>, hdr, body, t, id, f[3])
        ELSE IF ~rl.allowed
        THEN [st |-> rl.st, steps |-> rl.steps,
              resp |-> Response(429, "Rate limit exceeded", NoUuid, <<>>, <<>>)]
        ELSE AfterLimit(rl.st, rl.steps, hdr, body, t, id, f[3])

\* f: whether the limiter's get, the limiter's set and the record write fail
POST(st, hdr, body, t, id, f) ==
    LET rl == checkRateLimit(st, ClientIp(hdr), t, f[1], f[2])
    IN  IF ~rl.allowed
        THEN [st |-> rl.st, steps |-> rl.steps,
              resp |-> Response(429, "Rate limit exceeded", NoUuid, <<>>, <<>>)]
        ELSE AfterLimit(rl.st, rl.steps, hdr, body, t, id, f[3])

(***************************************************************************)
(* GET /api/pdf/[id].  A drawn text is a sequence of glyph runs.  The      *)
(* fonts are the standard Helvetica faces, whose WinAnsi encoding has no   *)
(* check mark: pdf-lib raises on a text it cannot encode, which the outer  *)
(* catch answers with 500.                                                 *)
(***************************************************************************)
CheckMark == "U+2713"
NotWinAnsi == {CheckMark}
Encodable(text) == \A i \in DOMAIN text : text[i] \notin NotWinAnsi

\* dayjs(ms).format("YYYY-MM-DD HH:mm"): the minute
FormatMinute(d) == IF d.valid THEN <<ToString(d.ms \div (60000 \div TimeUnitMs))>> ELSE <<"Invalid Date">>
\* dayjs(ms).format("YYYY-MM-DD HH:mm:ss"): the second
FormatSecond(ms) == <<ToString(ms \div (1000 \div TimeUnitMs))>>

Text(text) == [kind |-> "text", text |-> text, slot |-> ""]
Image(slot) == [kind |-> "image", text |-> <<>>, slot |-> slot]

addField(label, value) == <<Text(<<label, ":">>), Text(value)>>

\* placeImage: what it draws for one slot
placeImage(dataUrl, label) ==
    LET u == dataUrl.v
        failed == <<Text(<<label, ": [Image processing failed]">>)>>
    IN  IF DataUrlLen(u) = 0 THEN <<>>
        ELSE IF Base64Of(u) = NULL THEN failed
        ELSE IF Base64Of(u).body = "notb64" THEN failed
        ELSE IF StartsWith(u.head, "data:image/png")
        THEN IF Base64Of(u).body = "png"
             THEN <<Text(<<label, ":">>), Image(label)>> ELSE failed
        ELSE IF StartsWith(u.head, "data:image/jpeg") \/ StartsWith(u.head, "data:image/jpg")
        THEN IF Base64Of(u).body = "jpg"
             THEN <<Text(<<label, ":">>), Image(label)>> ELSE failed
        ELSE <<>>

\* every draw call of the handler, in order
Draws(submission, id, t) ==
    LET d == submission.data
    IN  <<Text(<<"Guest Registration & Agreement">>),
          Text(<<"Republic of South Africa">>),
          Text(<<"Submission ID: ">> \o id),
          Text(<<"Generated: ">> \o FormatSecond(submission.createdAt)),
          Text(<<"Host: [Your Business Name]">>),
          Text(<<"Address: [Your Business Address]">>),
          Text(<<"This record is maintained in compliance with the Immigration Act">>),
          Text(<<"GUEST INFORMATION">>)>>
        \o addField("Full Name", d.fullName.v)
        \o addField("ID/Passport Number", d.idOrPassport.v)
        \o addField("Nationality", d.nationality.v)
        \o addField("Residence Status", d.residenceStatus.v)
        \o addField("Home Address", d.homeAddress.v)
        \o addField("Phone Number", d.phone.v)
        \o addField("Email Address", d.email.v)
        \o <<Text(<<"ACCOMMODATION DETAILS">>)>>
        \o addField("Check-in", FormatMinute(d.checkIn.v))
        \o addField("Check-out", FormatMinute(d.checkOut.v))
        \o addField("Number of Guests", <<ToString(d.guests.v \div 10)>>)
        \o <<Text(<<"CONSENTS & ACKNOWLEDGMENTS">>),
             Text(<<CheckMark, " POPIA Consent: Granted">>),
             Text(<<CheckMark, " Non-Refund Policy: Acknowledged">>),
             Text(<<"UPLOADED DOCUMENTS">>)>>
        \o placeImage(d.selfie, "Selfie Photo")
        \o placeImage(d.idImage, "ID/Passport Document")
        \o placeImage(d.signature, "Digital Signature")
        \o <<Text(<<"--- End of Registration ---">>),
             Text(<<"Document generated on ">> \o FormatSecond(t))>>

GET(st, id, t, failGet) ==
    IF id = <<>> \/ ~isValidUUID(id)
    THEN [steps |-> <<>>,
          resp |-> Response(400, "Invalid ID format", NoUuid, <<>>, <<>>)]
    ELSE
    LET key == GuestKey(id)
        submission == kvGet(st, key, failGet)
        got == <<Step("kvGet", key, failGet)>>
    IN  IF submission = NULL
        THEN [steps |-> got,
              resp |-> Response(404, "Registration not found", NoUuid, <<>>, <<>>)]
        ELSE
        LET draws == Draws(submission, id, t)
        IN  IF \E i \in DOMAIN draws : ~Encodable(draws[i].text)
            THEN [steps |-> got \o <<Step("drawFailed", <<>>, FALSE)>>,
                  resp |-> Response(500, "Failed to generate PDF", NoUuid, <<>>, <<>>)]
            ELSE [steps |-> got \o <<Step("draw", <<>>, FALSE)>>,
                  resp |-> Response(200, "", id, <<>>, draws)]

(***************************************************************************)
(* The layout of the document: where the handler's cursor puts each block. *)
(* Lengths are in thousandths of a point.  The width of a text is the sum  *)
(* of the Helvetica advance widths of its characters (per 1000 units of    *)
(* the font size); kerning, which moves a line's width by a fraction of a  *)
(* character, is left out, and the texts the model draws have no line      *)
(* break that close to the line width.                                     *)
(***************************************************************************)
PageWidth == 595280      \* PageSizes.A4
PageHeight == 841890
margin == 50000

HelveticaWidth(c) ==
    CASE c \in {"i", "j", "l"} -> 222
      [] c \in {"|"} -> 260
      [] c \in {" ", "!", ",", ".", "/", ":", ";", "I", "[", "]", "f", "t"} -> 278
      [] c \in {"(", ")", "-", "r"} -> 333
      [] c \in {"{", "}"} -> 334
      [] c \in {"*"} -> 389
      [] c \in {"^"} -> 469
      [] c \in {"J", "c", "k", "s", "v", "x", "y", "z"} -> 500
      [] c \in {"#", "$", "0", "1", "2", "3", "4", "5", "6", "7", "8", "9",
                   "?", "L", "_", "a", "b", "d", "e", "g", "h", "n", "o", "p",
                   "q", "u"} -> 556
      [] c \in {"+", "<", "=", ">", "~"} -> 584
      [] c \in {"F", "T", "Z"} -> 611
      [] c \in {"&", "A", "B", "E", "K", "P", "S", "V", "X", "Y"} -> 667
      [] c \in {"C", "D", "H", "N", "R", "U", "w"} -> 722
      [] c \in {"G", "O", "Q"} -> 778
      [] c \in {"M", "m"} -> 833
      [] c \in {"%"} -> 889
      [] c \in {"W"} -> 944
      [] c \in {"@"} -> 1015
      [] OTHER -> 556

\* the sum of the widths of the characters of text (by halves)
RECURSIVE TextUnits(_)
TextUnits(text) ==
    IF text = <<>> THEN 0
    ELSE IF Len(text) = 1 THEN HelveticaWidth(text[1])
    ELSE TextUnits(SubSeq(text, 1, Len(text) \div 2))
           + TextUnits(SubSeq(text, Len(text) \div 2 + 1, Len(text)))

\* font.widthOfTextAtSize(text, size), size in points
widthOfTextAtSize(text, size) == TextUnits(text) * size

\* text.split(" ")
RECURSIVE split(_)
split(text) ==
    IF \A i \in DOMAIN text : text[i] # " " THEN <<text>>
    ELSE LET i == CHOOSE k \in DOMAIN text :
                      text[k] = " " /\ \A j \in 1..(k - 1) : text[j] # " "
         IN  <<SubSeq(text, 1, i - 1)>> \o split(SubSeq(text, i + 1, Len(text)))

\* the loop of drawText over the words: lineW and lineLen are the width and
\* the length of line, breaks the lines drawn so far
RECURSIVE wrap(_, _, _, _, _, _)
wrap(words, size, maxWidth, lineW, lineLen, breaks) ==
    IF words = <<>> THEN [breaks |-> breaks, lineLen |-> lineLen]
    ELSE LET word == Head(words)
             testW == lineW + (IF lineLen > 0 THEN widthOfTextAtSize(<<" ">>, size) ELSE 0)
                            + widthOfTextAtSize(word, size)
             testLen == lineLen + (IF lineLen > 0 THEN 1 ELSE 0) + Len(word)
         IN  IF testW > maxWidth /\ lineLen > 0
             THEN wrap(Tail(words), size, maxWidth, widthOfTextAtSize(word, size),
                       Len(word), breaks + 1)
             ELSE wrap(Tail(words), size, maxWidth, testW, testLen, breaks)

\* drawText with a maxWidth: y is the currentY it returns (the last line's
\* position), lines the number of lines it draws
drawText(text, yPos, size, maxWidth) ==
    LET w == wrap(split(text), size, maxWidth, 0, 0, 0)
    IN  [y |-> yPos - w.breaks * (size + 2) * 1000,
         lines |-> w.breaks + (IF w.lineLen > 0 THEN 1 ELSE 0)]

legalText ==
    <<"T","h","i","s"," ","r","e","c","o","r","d"," ","i","s",
      " ","m","a","i","n","t","a","i","n","e","d"," ","i","n",
      " ","c","o","m","p","l","i","a","n","c","e"," ","w","i",
      "t","h"," ","t","h","e"," ","I","m","m","i","g","r","a",
      "t","i","o","n"," ","A","c","t"," ","1","3"," ","o","f",
      " ","2","0","0","2"," ","a","n","d"," ","t","h","e"," ",
      "P","r","o","t","e","c","t","i","o","n"," ","o","f"," ",
      "P","e","r","s","o","n","a","l"," ","I","n","f","o","r",
      "m","a","t","i","o","n"," ","A","c","t"," ","(","P","O",
      "P","I","A",")","."," ","P","e","r","s","o","n","a","l",
      " ","i","n","f","o","r","m","a","t","i","o","n"," ","m",
      "a","y"," ","b","e"," ","d","i","s","c","l","o","s","e",
      "d"," ","t","o"," ","a","u","t","h","o","r","i","t","i",
      "e","s"," ","w","h","e","n"," ","l","a","w","f","u","l",
      "l","y"," ","r","e","q","u","i","r","e","d",".">>

\* the legal notice as drawText wraps it, drawn from position 0: the notice
\* is the same in every document, and the lines drawText draws lie at the
\* same distances below yPos wherever it starts
legalDrawn == drawText(legalText, 0, 9, PageWidth - 2 * margin)

\* a block of the document: drawn on page, its first line at y, its lowest
\* line (or, for an image, its lower edge) at low
Block(kind, page, y, low) == [kind |-> kind, page |-> page, y |-> y, low |-> low]

\* the handler's cursor: currentPage, y, and the blocks drawn so far
Cursor(page, y, blocks) == [page |-> page, y |-> y, blocks |-> blocks]

\* a faulty variant: no new page is ever started
checkPageSpace_never(c, requiredSpace) == c

checkPageSpace(c, requiredSpace) ==
    IF c.y - requiredSpace < margin
    THEN Cursor(c.page + 1, PageHeight - margin, c.blocks)
    ELSE c

\* one line of text drawn at the cursor, which then moves down by dy
drawLine(c, kind, dy) ==
    Cursor(c.page, c.y - dy, Append(c.blocks, Block(kind, c.page, c.y, c.y)))

\* addField on the cursor
layField(c, value) ==
    LET c1 == checkPageSpace(c, 30000)
        d == drawText(value, c1.y, 10, PageWidth - margin - 120000 - margin)
    IN  Cursor(c1.page, c1.y - 16000,
               Append(c1.blocks, Block("field", c1.page, c1.y, d.y)))

\* img.width and img.height of an embedded image
ImageSize(b) ==
    IF "w" \in DOMAIN b THEN [w |-> b.w, h |-> b.h] ELSE [w |-> 200, h |-> 150]

\* imgHeight of placeImage (maxWidth 200, maxHeight 150)
imgHeight(b) ==
    LET h == (200000 * ImageSize(b).h) \div ImageSize(b).w
    IN  IF h > 150000 THEN 150000 ELSE h

\* placeImage on the cursor
layImage(c, dataUrl) ==
    LET drawn == placeImage(dataUrl, "")
    IN  IF drawn = <<>> THEN c
        ELSE IF Len(drawn) = 1 THEN drawLine(c, "placeholder", 20000)
        ELSE LET h == imgHeight(Base64Of(dataUrl.v))
                 c1 == checkPageSpace(c, h + 40000)
             IN  Cursor(c1.page, c1.y - 15000 - h - 20000,
                        Append(c1.blocks,
                               Block("image", c1.page, c1.y, c1.y - 15000 - h)))

\* the footer on the cursor
layFooter(c) ==
    LET c1 == checkPageSpace(c, 50000)
    IN  Cursor(c1.page, c1.y - 35000,
               Append(c1.blocks, Block("footer", c1.page, c1.y - 20000, c1.y - 35000)))

\* the blocks of the document of a stored submission, in the order drawn
Layout(submission) ==
    LET d == submission.data
        c0 == Cursor(1, PageHeight - margin, <<>>)
        c1 == drawLine(drawLine(c0, "line", 20000), "line", 25000)
        c2 == drawLine(drawLine(drawLine(drawLine(c1, "line", 12000), "line", 12000),
                                "line", 12000), "line", 20000)
        legal == [y |-> c2.y + legalDrawn.y, lines |-> legalDrawn.lines]
        c3 == Cursor(c2.page, legal.y - 25000,
                     Append(c2.blocks, Block("line", c2.page, c2.y, legal.y)))
        c4 == drawLine(c3, "line", 20000)
        c5 == layField(layField(layField(layField(c4, d.fullName.v), d.idOrPassport.v),
                                d.nationality.v), d.residenceStatus.v)
        c6 == layField(layField(layField(c5, d.homeAddress.v), d.phone.v), d.email.v)
        c7 == drawLine(Cursor(c6.page, c6.y - 10000, c6.blocks), "line", 20000)
        c8 == layField(layField(layField(c7, FormatMinute(d.checkIn.v)),
                                FormatMinute(d.checkOut.v)),
                       <<ToString(d.guests.v \div 10)>>)
        c9 == drawLine(Cursor(c8.page, c8.y - 15000, c8.blocks), "line", 20000)
        c10 == drawLine(drawLine(c9, "line", 14000), "line", 25000)
        c11 == drawLine(c10, "line", 25000)
        c12 == layImage(layImage(layImage(c11, d.selfie), d.idImage), d.signature)
    IN  layFooter(c12).blocks

(***************************************************************************)
(* The success view (SuccessPage, submit/route.ts): notFound() or the page.*)
(***************************************************************************)
\* a faulty variant: a malformed identifier answered as a bad request
SuccessPage_badRequest(st, id, failGet) ==
    IF id = <<>> \/ ~isValidUUID(id)
    THEN [steps |-> <<>>,
          resp |-> Response(400, "Invalid ID format", NoUuid, <<>>, <<>>)]
    ELSE IF kvGet(st, GuestKey(id), failGet) = NULL
    THEN [steps |-> <<Step("kvGet", GuestKey(id), failGet)>>,
          resp |-> Response(404, "not-found", NoUuid, <<>>, <<>>)]
    ELSE [steps |-> <<Step("kvGet", GuestKey(id), failGet)>>,
          resp |-> Response(200, "", id, <<>>,
                            <<Text(<<"Thank you, ">>
                                   \o kvGet(st, GuestKey(id), failGet).data.fullName.v)>>)]

SuccessPage(st, id, failGet) ==
    IF id = <<>> \/ ~isValidUUID(id)
    THEN [steps |-> <<>>,
          resp |-> Response(404, "not-found", NoUuid, <<>>, <<>>)]
    ELSE
    LET key == GuestKey(id)
        submission == kvGet(st, key, failGet)
        got == <<Step("kvGet", key, failGet)>>
    IN  IF submission = NULL
        THEN [steps |-> got,
              resp |-> Response(404, "not-found", NoUuid, <<>>, <<>>)]
        ELSE [steps |-> got,
              resp |-> Response(200, "", id, <<>>,
                                <<Text(<<"Thank you, ">> \o submission.data.fullName.v)>>)]

(***************************************************************************)
(* Inputs.                                                                 *)
(***************************************************************************)
HdrForwarded == [xff |-> <<"10.0.0.1", "10.0.0.9">>, xri |-> "", ua |-> "UA"]
HdrRealIp == [xff |-> <<>>, xri |-> "10.0.0.1", ua |-> "UA"]
HdrNone == [xff |-> <<>>, xri |-> "", ua |-> "UA"]
Headers == {HdrForwarded, HdrRealIp, HdrNone}
Identities == {ClientIp(h) : h \in Headers}

NoBody == [json |-> FALSE, payload |-> NULL]
Bodies == {NoBody} \cup {[json |-> TRUE, payload |-> p] : p \in Payloads}

UnknownId == [i \in 1..36 |-> IF i \in DashAt THEN "-" ELSE "0"]
UpperId == [i \in 1..36 |-> IF i \in DashAt THEN "-" ELSE "A"]
MalformedIds ==
    {[i \in 1..36 |-> IF i \in DashAt THEN "-" ELSE "g"],
     SubSeq(UnknownId, 1, 35),
     <<"n","o","t","-","a","-","u","u","i","d">>,
     <<>>}
LookupIds == UuidPool \cup {UnknownId, UpperId} \cup MalformedIds

(***************************************************************************)
(* State, and the history kept for the properties.  Requests are served    *)
(* one after the other: a handler runs when no response is pending, and    *)
(* Deliver hands the pending response to the caller.                       *)
(***************************************************************************)
NoWin == [open |-> FALSE, end |-> 0, allowed |-> 0]
GhostCap == maxRequests + 1

Request(kind, ip, body, id, t) ==
    [kind |-> kind, ip |-> ip, body |-> body, id |-> id, time |-> t]

NoRequest == Request("none", "", NoBody, NoUuid, 0)
NoResponse == [status |-> 0, error |-> "", id |-> NoUuid, details |-> <<>>, doc |-> <<>>]

\* the rate-limit counters on which a remote call of these steps failed
FailedKeys(steps) ==
    {steps[i].key : i \in {j \in DOMAIN steps : steps[j].failed /\ IsRateKey(steps[j].key)}}

Store == [remote |-> remote, memory |-> memory]
Idle == last.kind = "none"

\* the concurrent callers of SpecRace and the clock values they meet
Callers == 1..MaxCallers
RaceTimes == {0, windowMs + 1}
\* a POST in flight: pc is where the handler stands (idle: not called; read:
\* the limiter's kvGet has returned record; limited: the limiter allowed the
\* call; done: the response is ready), t the clock at its last step, met
\* whether another handler was in flight while this one was
Call(pc, hdr, body, record, t, r, met) ==
    [pc |-> pc, hdr |-> hdr, body |-> body, record |-> record, t |-> t, resp |-> r,
     met |-> met]
NoCall == Call("idle", HdrNone, NoBody, NULL, 0, NoResponse, FALSE)
InFlight(call) == call.pc \in {"read", "limited"}

Init ==
    /\ remote = <<>>
    /\ memory = <<>>
    /\ now = 0
    /\ issued = {}
    /\ last = NoRequest
    /\ resp = NoResponse
    /\ trace = <<>>
    /\ pre = NoWin
    /\ gwin = [i \in Identities |-> NoWin]
    /\ faulted = {}
    /\ calls = [c \in Callers |-> NoCall]
    /\ granted = [ip \in Identities |-> [t \in RaceTimes |-> 0]]

\* one request to POST /api/submit, with headers from H, a body from B and
\* the failures F of its three store calls (the limiter's get and set, the
\* record write)
Submit(H, B, F) ==
    /\ Idle
    /\ \E hdr \in H, body \in B, f \in F,
          id \in randomUUID(issued) \cup {NoUuid} :
        LET r == POST(Store, hdr, body, now, id, f)
            ip == ClientIp(hdr)
            persisted == Reaches(r.steps, "randomUUID")
        IN  /\ persisted <=> id # NoUuid
            /\ f[2] => Len(r.steps) >= 2
            /\ f[3] => persisted
            /\ remote' = r.st.remote
            /\ memory' = r.st.memory
            /\ issued' = IF persisted THEN issued \cup {id} ELSE issued
            /\ last' = Request("POST", ip, body, NoUuid, now)
            /\ resp' = r.resp
            /\ trace' = r.steps
            /\ pre' = gwin[ip]
            /\ gwin' = [gwin EXCEPT ![ip] =
                           IF r.resp.status = 429 THEN @
                           ELSE IF ~@.open \/ now > @.end
                           THEN [open |-> TRUE, end |-> now + windowMs, allowed |-> 1]
                           ELSE [@ EXCEPT !.allowed = IF @ < GhostCap THEN @ + 1 ELSE @]]
            /\ faulted' = faulted \cup FailedKeys(r.steps)
            /\ UNCHANGED <<now, calls, granted>>

\* one request to GET /api/pdf/[id], with an identifier from Ids
Render(Ids) ==
    /\ Idle
    /\ \E id \in Ids, failGet \in BOOLEAN :
        LET r == GET(Store, id, now, failGet)
        IN  /\ failGet => r.steps # <<>>
            /\ last' = Request("GET", "", NoBody, id, now)
            /\ resp' = r.resp
            /\ trace' = r.steps
            /\ UNCHANGED <<remote, memory, now, issued, pre, gwin, faulted,
                           calls, granted>>

\* one visit of /success/[id], with an identifier from Ids
ViewSuccess(Ids) ==
    /\ Idle
    /\ \E id \in Ids, failGet \in BOOLEAN :
        LET r == SuccessPage(Store, id, failGet)
        IN  /\ failGet => r.steps # <<>>
            /\ last' = Request("VIEW", "", NoBody, id, now)
            /\ resp' = r.resp
            /\ trace' = r.steps
            /\ UNCHANGED <<remote, memory, now, issued, pre, gwin, faulted,
                           calls, granted>>

\* the pending response reaches the caller
Deliver ==
    /\ ~Idle
    /\ last' = NoRequest
    /\ resp' = NoResponse
    /\ trace' = <<>>
    /\ pre' = NoWin
    /\ UNCHANGED <<remote, memory, now, issued, gwin, faulted, calls, granted>>

\* time passes, to a later time of T
Tick(T) ==
    /\ Idle
    /\ \E t \in T : t > now /\ now' = t
    /\ UNCHANGED <<remote, memory, issued, last, resp, trace, pre, gwin, faulted,
                   calls, granted>>

(***************************************************************************)
(* Spec: the submission and lookup pipeline.  The record write and the     *)
(* lookups may fail at the remote store; the limiter's calls do not (they  *)
(* do in SpecRate).                                                        *)
(***************************************************************************)
SpecHeaders == Headers
SpecBodies ==
    {NoBody,
     [json |-> TRUE, payload |-> ValidPayload],
     [json |-> TRUE, payload |-> [ValidPayload EXCEPT !.fullName = Str(<<"A","1">>)]],
     [json |-> TRUE, payload |-> [ValidPayload EXCEPT !.popiaConsent = Bool(FALSE)]],
     [json |-> TRUE, payload |-> [ValidPayload EXCEPT !.checkIn = DateStr(16, TRUE, 0)]],
     [json |-> TRUE,
      payload |-> [ValidPayload EXCEPT
                      !.email = Str(<<"T","e","s","t","1","@","x",".","c","o">>)]]}
SpecTimes == {0, windowMs + 1}
AnyFaults == [1..3 -> BOOLEAN]
RecordFaults == {f \in AnyFaults : ~f[1] /\ ~f[2]}

Next ==
    \/ Submit(SpecHeaders, SpecBodies, RecordFaults)
    \/ Render(LookupIds)
    \/ ViewSuccess(LookupIds)
    \/ Deliver
    \/ Tick(SpecTimes)

Spec == Init /\ [][Next]_vars

(***************************************************************************)
(* SpecRate: the rate limiter of one client identity over the clock, each  *)
(* of its store calls failing or not; the bodies are rejected before the   *)
(* record write.                                                           *)
(***************************************************************************)
RateHeaders == {HdrForwarded, HdrRealIp}
RateBodies ==
    {NoBody,
     [json |-> TRUE, payload |-> [ValidPayload EXCEPT !.popiaConsent = Bool(FALSE)]]}
RateFaults == {f \in AnyFaults : ~f[3]}

NextRate ==
    \/ Submit(RateHeaders, RateBodies, RateFaults)
    \/ Deliver
    \/ Tick(TimePoints)

SpecRate == Init /\ [][NextRate]_vars

(***************************************************************************)
(* SpecForm: the registration form.  One client sends payloads around each *)
(* rule of the schema and of the spam heuristic and renders what was       *)
(* stored; the store calls of the submissions do not fail.                 *)
(***************************************************************************)
FormHeaders == {HdrNone}
FormBodies == {NoBody} \cup {[json |-> TRUE, payload |-> p] : p \in FormPayloads}
FormTimes == {0, 1}
NoFaults == {f \in AnyFaults : ~f[1] /\ ~f[2] /\ ~f[3]}

NextForm ==
    \/ Submit(FormHeaders, FormBodies, NoFaults)
    \/ Render(UuidPool)
    \/ Deliver
    \/ Tick(FormTimes)

SpecForm == Init /\ [][NextForm]_vars

(***************************************************************************)
(* SpecPage: the layout of the document.  One client sends registrations   *)
(* whose address and images fill the page differently and renders them.    *)
(***************************************************************************)
PageBodies == {[json |-> TRUE, payload |-> p] : p \in PagePayloads}

NextPage ==
    \/ Submit(FormHeaders, PageBodies, NoFaults)
    \/ Render(UuidPool)
    \/ Deliver
    \/ Tick(FormTimes)

SpecPage == Init /\ [][NextPage]_vars

(***************************************************************************)
(* SpecRace and SpecStore: POST handlers in flight at the same time.  A handler gives    *)
(* way at each await: after the limiter's kvGet, after the limiter's kvSet *)
(* and after the record's kvSet.  The clock is read when the kvGet has     *)
(* returned, the counter is written some time later.  The limiter's kvGet  *)
(* may fail at the remote store in SpecRace; the writes do not.            *)
(***************************************************************************)
\* a caller's POST starts: the limiter's kvGet returns the stored counter
\* (or, its remote call failing, what the memory map holds)
RaceBegin(H, B, F) ==
    \E c \in Callers, hdr \in H, body \in B, failGet \in F :
        /\ calls[c].pc = "idle"
        /\ c > 1 => InFlight(calls[c - 1])
        /\ calls' = [d \in Callers |->
                         IF d = c
                         THEN Call("read", hdr, body,
                                   kvGet(Store, RateKey(ClientIp(hdr)), failGet), now,
                                   NoResponse,
                                   \E e \in Callers : InFlight(calls[e]))
                         ELSE IF InFlight(calls[d]) THEN [calls[d] EXCEPT !.met = TRUE]
                         ELSE calls[d]]
        /\ UNCHANGED <<remote, memory, now, issued, last, resp, trace, pre, gwin,
                       faulted, granted>>

\* the limiter goes on: it read the clock at t, after its kvGet returned,
\* decides on the record it got and, if it allows the call, writes the counter
RaceLimit(T) ==
    \E c \in Callers, t \in T :
        /\ calls[c].pc = "read"
        /\ calls[c].t <= t /\ t <= now
        /\ LET ip == ClientIp(calls[c].hdr)
               r == checkRateLimitWrite(Store, ip, calls[c].record, t, FALSE)
           IN  /\ remote' = r.st.remote
               /\ memory' = r.st.memory
               /\ calls' = [calls EXCEPT ![c] =
                      IF r.allowed THEN [@ EXCEPT !.pc = "limited", !.t = t]
                      ELSE [@ EXCEPT !.pc = "done", !.t = t,
                               !.resp = Response(429, "Rate limit exceeded",
                                                 NoUuid, <<>>, <<>>)]]
               /\ granted' = IF r.allowed /\ granted[ip][t] < GhostCap
                             THEN [granted EXCEPT ![ip][t] = @ + 1]
                             ELSE granted
        /\ UNCHANGED <<now, issued, last, resp, trace, pre, gwin, faulted>>

\* the rest of the POST of an allowed call: parse, validate, spam check,
\* randomUUID and the record's kvSet
RaceFinish ==
    \E c \in Callers, id \in randomUUID(issued) \cup {NoUuid} :
        /\ calls[c].pc = "limited"
        /\ LET r == AfterLimit(Store, <<>>, calls[c].hdr, calls[c].body, now, id, FALSE)
               persisted == Reaches(r.steps, "randomUUID")
           IN  /\ persisted <=> id # NoUuid
               /\ remote' = r.st.remote
               /\ memory' = r.st.memory
               /\ issued' = IF persisted THEN issued \cup {id} ELSE issued
               /\ calls' = [calls EXCEPT ![c] = [@ EXCEPT !.pc = "done", !.t = now,
                                                     !.resp = r.resp]]
        /\ UNCHANGED <<now, last, resp, trace, pre, gwin, faulted, granted>>

\* the response reaches the caller, who may call again
RaceReturn ==
    \E c \in Callers :
        /\ calls[c].pc = "done"
        /\ calls' = [calls EXCEPT ![c] = NoCall]
        /\ UNCHANGED <<remote, memory, now, issued, last, resp, trace, pre, gwin,
                       faulted, granted>>

\* SpecRace: the callers share one identity and send bodies that are
\* rejected before the record write, over two windows of the clock
RaceHeaders == {HdrForwarded}
RaceBodies == {NoBody}

NextRace ==
    \/ RaceBegin(RaceHeaders, RaceBodies, BOOLEAN)
    \/ RaceLimit(RaceTimes)
    \/ RaceFinish
    \/ RaceReturn
    \/ Tick(RaceTimes)

SpecRace == Init /\ [][NextRace]_vars

\* SpecStore: the callers, of the same or of different identities, send one
\* registration each, every one while an earlier one is in flight
StoreHeaders == {HdrForwarded, HdrNone}
StoreBodies ==
    {[json |-> TRUE, payload |-> ValidPayload],
     [json |-> TRUE,
      payload |-> [ValidPayload EXCEPT !.fullName = Str(<<"B","o">>),
                                       !.email = Str(<<"b","o","@","y",".","i","o">>)]]}
StoreTimes == {0}

NextStore ==
    \/ RaceBegin(StoreHeaders, StoreBodies, {FALSE})
    \/ RaceLimit(StoreTimes)
    \/ RaceFinish

SpecStore == Init /\ [][NextStore]_vars

(***************************************************************************)
(* The claims.  last, resp and trace describe the request just handled;    *)
(* pre is the window of its client identity as the callers saw it before   *)
(* the request.                                                            *)
(***************************************************************************)
GuestKeys(store) == {k \in DOMAIN store : IsGuestKey(k)}
Counter(ip) == kvGet(Store, RateKey(ip), FALSE)
Record(id) == kvGet(Store, GuestKey(id), FALSE)
Clean(ip) == RateKey(ip) \notin faulted
Ops(steps) == [i \in DOMAIN steps |-> steps[i].op]
Before(steps, a, b) ==
    \A i \in DOMAIN steps :
        steps[i].op = b => \E j \in 1..(i - 1) : steps[j].op = a
WritesRecord(steps) ==
    \E i \in DOMAIN steps : steps[i].op = "kvSet" /\ IsGuestKey(steps[i].key)

C2_StageOrder ==
    last.kind = "POST" =>
        /\ trace # <<>> /\ trace[1] = Step("kvGet", RateKey(last.ip), trace[1].failed)
        /\ resp.status = 429
               => /\ \A i \in DOMAIN trace : IsRateKey(trace[i].key)
                  /\ ~Reaches(trace, "validate") /\ ~Reaches(trace, "spam")
                  /\ ~WritesRecord(trace)
        /\ Reaches(trace, "validate") => resp.status # 429
        /\ Reaches(trace, "spam")
               => /\ Before(trace, "validate", "spam")
                  /\ Validate(last.body.payload, last.time).ok
        /\ WritesRecord(trace)
               => /\ Before(trace, "spam", "randomUUID")
                  /\ Ops(trace)[Len(trace)] = "kvSet"
                  /\ ~detectSpamPatterns(Validate(last.body.payload, last.time).data)

C2_Witness ==
    /\ last.kind = "POST" /\ resp.status = 429
    /\ last.body.json /\ Validate(last.body.payload, last.time).ok
    /\ Len(trace) = 1

\* C3 as stated: when the limiter's own call to the store fails, the call
\* is allowed.
C3_FailOpen ==
    (/\ last.kind = "POST"
     /\ \E i \in DOMAIN trace : IsRateKey(trace[i].key) /\ trace[i].failed)
        => resp.status # 429

\* C4 as stated: when the write of the record fails, the call ends with a
\* server-error response.
C4_WriteFailure ==
    (/\ last.kind = "POST"
     /\ \E i \in DOMAIN trace :
            trace[i].op = "kvSet" /\ IsGuestKey(trace[i].key) /\ trace[i].failed)
        => resp.status = 500

\* C5: every stored record holds a payload that satisfied every validation
\* rule at the moment it was written and was not flagged as spam.
C5_StoredValid ==
    \A store \in {remote, memory} :
        \A k \in GuestKeys(store) :
            /\ Validate(store[k].value.data, store[k].value.createdAt).ok
            /\ ~detectSpamPatterns(store[k].value.data)

C5_Witness ==
    /\ last.kind = "POST" /\ resp.status = 201
    /\ GuestKey(resp.id) \in GuestKeys(remote)

\* C6: a stored record is write-once: no step changes or removes it.
C6_WriteOnce ==
    [][/\ \A k \in GuestKeys(remote) : k \in DOMAIN remote' /\ remote'[k] = remote[k]
       /\ \A k \in GuestKeys(memory) : k \in DOMAIN memory' /\ memory'[k] = memory[k]]_vars

C6_Witness ==
    /\ last.kind = "POST" /\ resp.status = 201
    /\ Cardinality(GuestKeys(remote) \cup GuestKeys(memory)) >= 2

\* C7 as stated: every record is stored with an expiry of seven years.
C7_Expiry ==
    \A store \in {remote, memory} :
        \A k \in GuestKeys(store) : store[k].ex = expirationSeconds

\* C8 as stated: every render of an identifier returned by a successful
\* submission succeeds, and the document names the guest and both consents.
C8_RenderSucceeds ==
    (last.kind = "GET" /\ last.id \in issued) =>
        /\ resp.status = 200
        /\ \E i \in DOMAIN resp.doc :
               resp.doc[i].kind = "text"
               /\ resp.doc[i].text = Record(last.id).data.fullName.v
        /\ \E i \in DOMAIN resp.doc :
               resp.doc[i].text = <<CheckMark, " POPIA Consent: Granted">>
        /\ \E i \in DOMAIN resp.doc :
               resp.doc[i].text = <<CheckMark, " Non-Refund Policy: Acknowledged">>

\* C9: for a malformed identifier the document endpoint answers 400 and
\* reads nothing from the store; for a well-formed identifier with no record
\* in either store it answers 404.
C9_BadIdentifier ==
    last.kind = "GET" =>
        /\ last.id \in MalformedIds => resp.status = 400 /\ trace = <<>>
        /\ (/\ last.id \in LookupIds \ MalformedIds
            /\ \A k \in GuestKeys(remote) \cup GuestKeys(memory) :
                   k # GuestKey(last.id))
               => resp.status = 404

C9_Witness ==
    /\ last.kind = "GET" /\ last.id \in MalformedIds /\ last.id # <<>>
    /\ resp.status = 400 /\ trace = <<>>

\* C10 as stated: a malformed identifier and an unknown one get the same
\* outcome, on the document endpoint as on the success view.
C10_Original ==
    (last.kind \in {"GET", "VIEW"} /\ last.id \in MalformedIds) =>
        resp = IF last.kind = "GET"
               THEN GET(Store, UnknownId, last.time, FALSE).resp
               ELSE SuccessPage(Store, UnknownId, FALSE).resp

\* C10 amended: on the success view a malformed identifier and an unknown
\* one get the same not-found outcome; the document endpoint tells them
\* apart (400 for the malformed one, 404 for the unknown one).
C10_SuccessViewOnly ==
    last.id \in MalformedIds =>
        /\ last.kind = "VIEW"
               => /\ resp = SuccessPage(Store, UnknownId, FALSE).resp
                  /\ resp.status = 404 /\ resp.error = "not-found"
        /\ last.kind = "GET"
               => /\ resp.status = 400
                  /\ GET(Store, UnknownId, last.time, FALSE).resp.status = 404

C10_Witness ==
    /\ last.kind = "VIEW" /\ last.id \in MalformedIds /\ last.id # <<>>
    /\ resp.status = 404

\* C11 as stated: the text drawn for a stored identifier is the same at
\* whatever time it is rendered.
C11_SameText ==
    (last.kind = "GET" /\ Record(last.id) # NULL) =>
        \A t \in TimePoints :
            Draws(Record(last.id), last.id, t)
                = Draws(Record(last.id), last.id, last.time)

\* the three image slots of the document, and whether a stored data URL can
\* be decoded and embedded by placeImage
Slots ==
    {[field |-> "selfie", label |-> "Selfie Photo"],
     [field |-> "idImage", label |-> "ID/Passport Document"],
     [field |-> "signature", label |-> "Digital Signature"]}
Embeddable(u) ==
    /\ Base64Of(u) # NULL
    /\ \/ u.head = "data:image/png;base64" /\ Base64Of(u).body = "png"
       \/ u.head \in {"data:image/jpeg;base64", "data:image/jpg;base64"}
            /\ Base64Of(u).body = "jpg"
\* C12 as stated: a stored image that cannot be decoded or embedded is
\* drawn as a placeholder for its slot, the other slots are drawn, and the
\* render answers 200.
C12_Placeholder ==
    (/\ last.kind = "GET" /\ Record(last.id) # NULL
     /\ \E sl \in Slots : ~Embeddable(Record(last.id).data[sl.field].v))
        => /\ resp.status = 200
           /\ \A sl \in Slots :
                 IF Embeddable(Record(last.id).data[sl.field].v)
                 THEN Image(sl.label) \in Range(resp.doc)
                 ELSE Text(<<sl.label, ": [Image processing failed]">>)
                          \in Range(resp.doc)

\* the fields a list of issues names; the fields whose rules p violates at t
FieldsOf(issues) == {issues[i].field : i \in DOMAIN issues}
ViolatedFields(p, t) ==
    FieldsOf(FieldIssues(p, t))
      \cup (IF p.checkIn.t = "string" /\ p.checkOut.t = "string"
            THEN FieldsOf(CrossIssues(p)) ELSE {})
\* C13 as stated: a payload that passes the limiter and violates field
\* rules is answered 400 with every violated field named in details, and no
\* record is stored.
C13_AllViolations ==
    (/\ last.kind = "POST" /\ last.body.json /\ resp.status # 429
     /\ ViolatedFields(last.body.payload, last.time) # {})
        => /\ resp.status = 400
           /\ FieldsOf(resp.details) = ViolatedFields(last.body.payload, last.time)
           /\ ~WritesRecord(trace)

\* C14: a check-in that is not strictly later than the time of validation
\* (equal, earlier, or no date) is rejected on checkIn; one strictly later
\* gets no checkIn failure.
C14_CheckInFuture ==
    (/\ last.kind = "POST" /\ Reaches(trace, "validate")
     /\ last.body.payload.checkIn.t = "string")
        => IF /\ last.body.payload.checkIn.v.valid
              /\ last.body.payload.checkIn.v.ms > last.time
           THEN "checkIn" \notin FieldsOf(resp.details)
           ELSE resp.status = 400 /\ "checkIn" \in FieldsOf(resp.details)

C14_Witness ==
    /\ last.kind = "POST" /\ Reaches(trace, "validate")
    /\ last.body.payload.checkIn.t = "string"
    /\ last.body.payload.checkIn.v.valid
    /\ last.body.payload.checkIn.v.ms = last.time
    /\ resp.status = 400 /\ FieldsOf(resp.details) = {"checkIn"}

\* C15 as stated: a check-out at or before the check-in, or more than 365
\* days after it, is rejected on checkOut; a check-out after the check-in by
\* at most 365 days gets no checkOut failure.
C15_CheckOutRule ==
    (/\ last.kind = "POST" /\ Reaches(trace, "validate")
     /\ last.body.payload.checkIn.t = "string" /\ last.body.payload.checkIn.v.valid
     /\ last.body.payload.checkOut.t = "string" /\ last.body.payload.checkOut.v.valid)
        => IF \/ last.body.payload.checkOut.v.ms <= last.body.payload.checkIn.v.ms
              \/ last.body.payload.checkOut.v.ms - last.body.payload.checkIn.v.ms
                     > 365 * MsPerDay
           THEN resp.status = 400 /\ "checkOut" \in FieldsOf(resp.details)
           ELSE "checkOut" \notin FieldsOf(resp.details)

\* the bytes that len base64 characters, pad of them "=", decode to
DecodedLen(b) == (b.len \div 4) * 3 - b.pad
\* the ceiling of each document field; a field that is a base64 image data URL
Ceilings ==
    {[field |-> "selfie", bytes |-> 5 * 1024 * 1024],
     [field |-> "idImage", bytes |-> 5 * 1024 * 1024],
     [field |-> "signature", bytes |-> 1 * 1024 * 1024]}
WellFormed(x) ==
    /\ x.t = "string"
    /\ StartsWith(x.v.head, "data:image/")
    /\ Base64Of(x.v) # NULL
    /\ Base64Of(x.v).len % 4 = 0
\* C16 as stated: a well-formed document field is rejected exactly when its
\* decoded byte length exceeds its ceiling (5MB for selfie and idImage, 1MB
\* for signature).
C16_SizeCeiling ==
    (last.kind = "POST" /\ Reaches(trace, "validate")) =>
        \A c \in Ceilings :
            WellFormed(last.body.payload[c.field]) =>
                (c.field \in FieldsOf(resp.details)
                    <=> DecodedLen(Base64Of(last.body.payload[c.field].v)) > c.bytes)

\* why a document field fails: it is absent, its encoding is malformed, or
\* its decoded size is over the ceiling of bytes
Cause(x, bytes) ==
    IF x.t # "string" THEN "absent"
    ELSE IF ~(StartsWith(x.v.head, "data:image/") /\ Base64Of(x.v) # NULL)
    THEN "malformed"
    ELSE IF DecodedLen(Base64Of(x.v)) > bytes THEN "oversize"
    ELSE "none"
MessagesOn(issues, field) ==
    {issues[i].message : i \in {j \in DOMAIN issues : issues[j].field = field}}
\* C17 as stated: an absent, a malformed and an oversize document field each
\* fail that field, and the messages of two different causes differ.
C17_DistinctMessages ==
    (last.kind = "POST" /\ Reaches(trace, "validate")) =>
        \A c \in Ceilings :
            Cause(last.body.payload[c.field], c.bytes) # "none" =>
                /\ MessagesOn(resp.details, c.field) # {}
                /\ \A q \in FormPayloads :
                      Cause(q[c.field], c.bytes)
                          \notin {"none", Cause(last.body.payload[c.field], c.bytes)}
                      => MessagesOn(Validate(q, last.time).issues, c.field)
                             \cap MessagesOn(resp.details, c.field) = {}

\* C18: a validated payload that the spam heuristic matches is answered 400
\* with the one generic error, no per-field detail and no identifier,
\* whichever rule matched, and no record is stored for it.
C18_GenericSpam ==
    (/\ last.kind = "POST" /\ last.body.json /\ resp.status # 429
     /\ Validate(last.body.payload, last.time).ok
     /\ detectSpamPatterns(Validate(last.body.payload, last.time).data))
        => /\ resp.status = 400 /\ resp.error = "Submission rejected"
           /\ resp.details = <<>> /\ resp.id = NoUuid /\ resp.doc = <<>>
           /\ ~WritesRecord(trace)
           /\ \A store \in {remote, memory} : \A k \in GuestKeys(store) :
                  store[k].value.data # Validate(last.body.payload, last.time).data

C18_Witness ==
    /\ last.kind = "POST" /\ last.body.json
    /\ last.body.payload.homeAddress = Str(Repeat("a", 12))
    /\ resp.status = 400 /\ resp.error = "Submission rejected"

\* the calls of steps that are op on a key of kind isKind
CallsOn(steps, op, isRate) ==
    Cardinality({i \in DOMAIN steps :
                    /\ steps[i].op = op
                    /\ IF isRate THEN IsRateKey(steps[i].key)
                       ELSE IsGuestKey(steps[i].key)})
\* C19 as stated: every attempt, whatever its outcome, reads the identity's
\* counter once and writes it once; it writes a guest record, exactly one,
\* just when it ends in 201.
C19_Original ==
    last.kind = "POST" =>
        /\ CallsOn(trace, "kvGet", TRUE) = 1
        /\ CallsOn(trace, "kvSet", TRUE) = 1
        /\ CallsOn(trace, "kvSet", FALSE) = (IF resp.status = 201 THEN 1 ELSE 0)

\* C19 amended: every attempt reads the identity's counter once, and writes
\* it once unless it is denied (429), when it writes nothing; it writes a
\* guest record, exactly one, just when it ends in 201.
C19_CounterAccess ==
    last.kind = "POST" =>
        /\ CallsOn(trace, "kvGet", TRUE) = 1
        /\ \A i \in DOMAIN trace : IsRateKey(trace[i].key) => trace[i].key = RateKey(last.ip)
        /\ CallsOn(trace, "kvSet", TRUE) = (IF resp.status = 429 THEN 0 ELSE 1)
        /\ CallsOn(trace, "kvSet", FALSE) = (IF resp.status = 201 THEN 1 ELSE 0)
        /\ CallsOn(trace, "kvGet", FALSE) = 0

C19_Witness ==
    /\ last.kind = "POST" /\ resp.status = 429
    /\ CallsOn(trace, "kvGet", TRUE) = 1
    /\ CallsOn(trace, "kvSet", TRUE) = 0
    /\ Counter(last.ip).count = maxRequests

\* C20 as stated: every write of a rate-limit counter gives the entry an
\* expiry equal to the time left until the window's reset time.
C20_CounterExpiry ==
    (last.kind = "POST" /\ CallsOn(trace, "kvSet", TRUE) = 1) =>
        \A store \in {remote, memory} :
            (/\ RateKey(last.ip) \in DOMAIN store
             /\ store[RateKey(last.ip)].value = Counter(last.ip))
                => store[RateKey(last.ip)].ex * 1000
                       = (Counter(last.ip).resetTime - last.time) * TimeUnitMs

\* C23 as stated: the client form schema and the server schema accept the
\* same payloads.
C23_SameSchema ==
    (last.kind = "POST" /\ Reaches(trace, "validate")) =>
        (FormValidate(last.body.payload, last.time).ok
            <=> resp.error # "Validation failed")

\* the value the limiter's kvSet of the request just handled left in the
\* store it wrote (the memory map when its remote call failed)
WrittenCounter ==
    LET set == CHOOSE i \in DOMAIN trace :
                   trace[i].op = "kvSet" /\ IsRateKey(trace[i].key)
    IN  IF trace[set].failed THEN memory[trace[set].key].value
        ELSE remote[trace[set].key].value

\* C28 as stated: a kvGet of a key after a kvSet of it returns the value
\* set, whether the remote call of the get fails or not.
C28_ReadYourWrite ==
    (last.kind = "POST" /\ CallsOn(trace, "kvSet", TRUE) = 1) =>
        \A failGet \in BOOLEAN :
            kvGet(Store, RateKey(last.ip), failGet) = WrittenCounter

\* the counter of ip as a healthy kvGet returns it from the stores r and m
CounterIn(r, m, ip) == kvGet([remote |-> r, memory |-> m], RateKey(ip), FALSE)

\* C26 as stated: an allowed call inside an open window adds exactly 1 to
\* the count and keeps the reset time, and a denied call changes neither --
\* whatever the remote store did.
C26_Original ==
    [][(last.kind = "none" /\ last'.kind = "POST"
        /\ Counter(last'.ip) # NULL
        /\ last'.time <= Counter(last'.ip).resetTime)
          => CounterIn(remote', memory', last'.ip)
               = IF resp'.status = 429 THEN Counter(last'.ip)
                 ELSE [count |-> Counter(last'.ip).count + 1,
                       resetTime |-> Counter(last'.ip).resetTime]]_vars

\* C26 amended: the same, for calls handled one at a time on a counter on
\* which no remote store call has failed.
C26_WindowFixed ==
    [][(last.kind = "none" /\ last'.kind = "POST"
        /\ RateKey(last'.ip) \notin faulted'
        /\ Counter(last'.ip) # NULL
        /\ last'.time <= Counter(last'.ip).resetTime)
          => CounterIn(remote', memory', last'.ip)
               = IF resp'.status = 429 THEN Counter(last'.ip)
                 ELSE [count |-> Counter(last'.ip).count + 1,
                       resetTime |-> Counter(last'.ip).resetTime]]_vars

C26_Witness ==
    /\ last.kind = "POST" /\ Clean(last.ip) /\ resp.status # 429
    /\ pre.open /\ last.time <= pre.end /\ last.time > 0
    /\ Counter(last.ip) = [count |-> pre.allowed + 1, resetTime |-> pre.end]

\* the steps of the limiter: the store calls made before the body is parsed
LimiterSteps(steps) ==
    {i \in DOMAIN steps :
        /\ steps[i].op \in {"kvGet", "kvSet"}
        /\ \A j \in 1..i : steps[j].op # "parse"}

\* C27: a POST of identity A reads and writes A's counter only, its limiter
\* touches no guest record key, the counters of the other identities stay as
\* they were, and the call is denied exactly when A's own earlier calls
\* filled A's window.
C27_Isolated ==
    [][(last.kind = "none" /\ last'.kind = "POST") =>
        /\ \A i \in LimiterSteps(trace') :
               trace'[i].key = <<"rate_limit:", last'.ip>>
        /\ \A i \in DOMAIN trace' :
               IsRateKey(trace'[i].key) => trace'[i].key = <<"rate_limit:", last'.ip>>
        /\ \A ip \in Identities \ {last'.ip} :
               /\ Lookup(remote', <<"rate_limit:", ip>>) = Lookup(remote, <<"rate_limit:", ip>>)
               /\ Lookup(memory', <<"rate_limit:", ip>>) = Lookup(memory, <<"rate_limit:", ip>>)
        /\ resp'.status = 429 <=>
               (pre'.open /\ last'.time <= pre'.end /\ pre'.allowed >= maxRequests)]_vars

C27_Witness ==
    /\ last.kind = "POST" /\ resp.status # 429 /\ pre.open /\ last.time <= pre.end
    /\ \E ip \in Identities \ {last.ip} :
           /\ gwin[ip].open /\ gwin[ip].allowed >= maxRequests
           /\ last.time <= gwin[ip].end
           /\ Lookup(remote, <<"rate_limit:", ip>>).count = maxRequests

\* C29 as stated: in a render of a stored record, the draw calls of the
\* handler hold, for each image slot, the embedded image or the placeholder
\* of the slot.
C29_EverySlotShown ==
    (last.kind = "GET" /\ Record(last.id) # NULL) =>
        \A sl \in Slots :
            \/ Image(sl.label) \in Range(Draws(Record(last.id), last.id, last.time))
            \/ Text(<<sl.label, ": [Image processing failed]">>)
                   \in Range(Draws(Record(last.id), last.id, last.time))

\* the counter the limiter computes from the record it read and the clock t
CounterFrom(record, t) ==
    IF record = NULL \/ t > record.resetTime
    THEN [count |-> 1, resetTime |-> t + windowMs]
    ELSE [count |-> record.count + 1, resetTime |-> record.resetTime]

\* C21: between its read and its write a call gives way to the others; it
\* decides on the counter it read, and an allowed call writes the counter
\* computed from the one it read, whatever the store holds by then.  (The
\* execution the claim speaks of is C21_Witness.)
C21_StaleDecision ==
    [][\A c \in Callers :
          (calls[c].pc = "read" /\ calls'[c].pc # "read") =>
              LET rec == calls[c].record
                  t == calls'[c].t
                  key == <<"rate_limit:", ClientIp(calls[c].hdr)>>
                  full == rec # NULL /\ t <= rec.resetTime /\ rec.count >= maxRequests
              IN  IF full
                  THEN /\ calls'[c].pc = "done" /\ calls'[c].resp.status = 429
                       /\ remote' = remote /\ memory' = memory
                  ELSE /\ calls'[c].pc = "limited"
                       /\ Lookup(remote', key) = CounterFrom(rec, t)
                       /\ memory' = memory]_vars

C21_Witness ==
    \E c1 \in Callers, c2 \in Callers :
        /\ c1 # c2
        /\ calls[c1].pc = "limited" /\ calls[c2].pc = "limited"
        /\ ClientIp(calls[c1].hdr) = ClientIp(calls[c2].hdr)
        /\ calls[c1].record = calls[c2].record /\ calls[c1].record # NULL
        /\ calls[c1].t = calls[c2].t
        /\ calls[c1].t <= calls[c1].record.resetTime
        /\ memory = <<>>
        /\ granted[ClientIp(calls[c1].hdr)][calls[c1].t] > maxRequests

\* C25: under every interleaving, every rate-limit counter in the remote
\* store and in the memory map has a count from 1 to maxRequests.
C25_CountInRange ==
    /\ \A k \in DOMAIN remote :
           IsRateKey(k) => remote[k].value.count \in 1..maxRequests
    /\ \A k \in DOMAIN memory :
           IsRateKey(k) => memory[k].value.count \in 1..maxRequests

C25_Witness ==
    \E ip \in Identities, t \in RaceTimes :
        /\ granted[ip][t] > maxRequests
        /\ Lookup(remote, <<"rate_limit:", ip>>) # NULL
        /\ Lookup(remote, <<"rate_limit:", ip>>).count = maxRequests
        /\ memory = <<>>

\* the guest records of a store
Guests(store) == {k \in DOMAIN store : IsGuestKey(k)}

\* C22: under every interleaving, a step overwrites or removes no guest
\* record, and the calls answered 201 hold different identifiers, each with
\* a record of the call's own payload stored under it.
C22_OwnRecord ==
    [][/\ \A k \in Guests(remote) : k \in DOMAIN remote' /\ remote'[k] = remote[k]
       /\ \A k \in Guests(memory) : k \in DOMAIN memory' /\ memory'[k] = memory[k]
       /\ \A c \in Callers :
              calls'[c].resp.status = 201 =>
                  /\ Lookup(remote', <<"guest:">> \o calls'[c].resp.id) # NULL
                  /\ Lookup(remote', <<"guest:">> \o calls'[c].resp.id).data
                         = Parsed[calls'[c].body.payload, calls'[c].t].data
                  /\ Lookup(remote', <<"guest:">> \o calls'[c].resp.id).metadata.ip
                         = ClientIp(calls'[c].hdr)
                  /\ \A c2 \in Callers \ {c} :
                         calls'[c2].resp.status = 201
                             => calls'[c2].resp.id # calls'[c].resp.id]_vars

C22_Witness ==
    /\ \A c \in Callers :
           calls[c].pc = "done" /\ calls[c].resp.status = 201 /\ calls[c].met
    /\ calls[1].body # calls[2].body
    /\ Cardinality(Guests(remote)) = MaxCallers

\* C30 as stated: in the document of a stored record, the block that
\* follows a field on its page starts below every line drawn for the field.
C30_NoOverlap ==
    (last.kind = "GET" /\ Record(last.id) # NULL) =>
        LET b == Layout(Record(last.id))
        IN  \A i \in 1..(Len(b) - 1) :
                (b[i].kind = "field" /\ b[i + 1].page = b[i].page)
                    => b[i + 1].y < b[i].low

\* C24: in the document of a stored record, every block starts at or below
\* the top margin and ends at or above the bottom margin of its page, a new
\* page being started where the block would not fit.
C24_AboveMargin ==
    (last.kind = "GET" /\ Record(last.id) # NULL) =>
        LET b == Layout(Record(last.id))
        IN  \A i \in DOMAIN b :
                /\ b[i].low >= margin
                /\ b[i].y <= PageHeight - margin
                /\ b[i].low <= b[i].y
                /\ i > 1 => b[i].page \in {b[i - 1].page, b[i - 1].page + 1}

C24_Witness ==
    /\ last.kind = "GET" /\ Record(last.id) # NULL
    /\ LET b == Layout(Record(last.id))
       IN  /\ \E i \in 2..Len(b) :
                  /\ b[i].kind = "image" /\ b[i].page = b[i - 1].page + 1
                  /\ b[i].y = PageHeight - margin
                  /\ b[i - 1].kind = "image" /\ b[i - 1].low < margin + 150000
           /\ \E i \in 2..Len(b) :
                  b[i].kind = "footer" /\ b[i].low >= margin

====
